---------------------------- MODULE Spec2Model ----------------------------
(***************************************************************************)
(* Model of the Intelligent Comment Cleaner extension (src/extension.js): *)
(* comment extraction, the classification pipeline of CommentAnalyzer and *)
(* the dialogs and removal engine of CommentCleaner.                      *)
(*                                                                         *)
(* Text is modelled by TLA+ strings (sequences of characters); line and   *)
(* character numbers are 0-based as in the editor API, string indexes are *)
(* 1-based as in TLA+.  Documents use "\n" as their only line terminator. *)
(* Confidence values are exact fractions [n |-> numerator, d |-> denom].  *)
(***************************************************************************)
EXTENDS Integers, Sequences, FiniteSets, TLC

VARIABLES
    languageId,   \* document.languageId of the active editor
    doc,          \* the document: its lines, without terminators
    pc,           \* where the running command is suspended (which await)
    threshold,    \* options.confidenceThreshold of cleanComments, or NoOption
    analyses,     \* allAnalyses: <<[comment, analysis]>> of the last analysis
    pending,      \* the list handed to the dialog or to removeComments
    plan,         \* deletions issued to the editBuilder, in issue order
    snapshot,     \* the document lines the last plan was computed against
    decorations,  \* ranges currently highlighted in the editor
    statistics,   \* analyzer.statistics
    message,      \* the notifications shown by the last command, in order
    route,        \* the confirmation that led to removeComments
    runs          \* commands started so far

vars == <<languageId, doc, pc, threshold, analyses, pending, plan, snapshot,
          decorations, statistics, message, route, runs>>

-----------------------------------------------------------------------------
(* Strings                                                                 *)

Min(a, b) == IF a < b THEN a ELSE b

Max(a, b) == IF a > b THEN a ELSE b

\* String.prototype.charAt, 1-based: "" outside the string
CharAt(s, i) == IF i >= 1 /\ i <= Len(s) THEN SubSeq(s, i, i) ELSE ""

\* String.prototype.substring(a, b) with 0-based, end-exclusive indexes
Substring(s, a, b) == SubSeq(s, Min(Max(a, 0), Len(s)) + 1, Min(Max(b, 0), Len(s)))

StartsAt(s, p, i) == i >= 1 /\ i + Len(p) - 1 <= Len(s) /\ SubSeq(s, i, i + Len(p) - 1) = p

StartsWith(s, p) == StartsAt(s, p, 1)

\* String.prototype.includes
Includes(s, p) == \E i \in 1..(Len(s) - Len(p) + 1) : StartsAt(s, p, i)

\* first index >= from at which p occurs in s, 0 if none
IndexFrom(s, p, from) ==
    LET hits == {i \in Max(from, 1)..(Len(s) - Len(p) + 1) : StartsAt(s, p, i)}
    IN  IF hits = {} THEN 0 ELSE CHOOSE i \in hits : \A j \in hits : i <= j

LowerLetters == "abcdefghijklmnopqrstuvwxyz"

UpperLetters == "ABCDEFGHIJKLMNOPQRSTUVWXYZ"

Digits == "0123456789"

CharsOf(s) == {CharAt(s, i) : i \in 1..Len(s)}

LowerSet == CharsOf(LowerLetters)

UpperSet == CharsOf(UpperLetters)

DigitSet == CharsOf(Digits)

IsLower(c) == c \in LowerSet

IsUpper(c) == c \in UpperSet

IsDigit(c) == c \in DigitSet

\* the regex class \w
IsWordChar(c) == IsLower(c) \/ IsUpper(c) \/ IsDigit(c) \/ c = "_"

\* the regex class \s, and what trim() strips
IsSpace(c) == c \in {" ", "\t", "\n", "\r", "\f"}

LowerChar(c) == IF IsUpper(c) THEN CharAt(LowerLetters, IndexFrom(UpperLetters, c, 1)) ELSE c

RECURSIVE MapChars(_, _, _)
\* s with every character c replaced by the string F(c), from index i on
MapChars(F(_), s, i) ==
    IF i > Len(s) THEN "" ELSE F(CharAt(s, i)) \o MapChars(F, s, i + 1)

\* String.prototype.toLowerCase
ToLowerCase(s) == MapChars(LowerChar, s, 1)

RECURSIVE TrimStart(_)
TrimStart(s) == IF Len(s) > 0 /\ IsSpace(CharAt(s, 1)) THEN TrimStart(Tail(s)) ELSE s

RECURSIVE TrimEnd(_)
TrimEnd(s) ==
    IF Len(s) > 0 /\ IsSpace(CharAt(s, Len(s))) THEN TrimEnd(SubSeq(s, 1, Len(s) - 1)) ELSE s

\* String.prototype.trim
Trim(s) == TrimEnd(TrimStart(s))

\* s.replace(/[^...]/g, '') keeping the characters that satisfy Keep
KeepOnly(Keep(_), s) == LET F(c) == IF Keep(c) THEN c ELSE "" IN MapChars(F, s, 1)

RECURSIVE CollapseSpaces(_, _)
\* s.replace(/\s+/g, ' ') from index i on
CollapseSpaces(s, i) ==
    IF i > Len(s) THEN ""
    ELSE IF IsSpace(CharAt(s, i))
         THEN IF i < Len(s) /\ IsSpace(CharAt(s, i + 1))
              THEN CollapseSpaces(s, i + 1)
              ELSE " " \o CollapseSpaces(s, i + 1)
         ELSE CharAt(s, i) \o CollapseSpaces(s, i + 1)

RECURSIVE SplitSpaces(_, _, _)
\* s.split(/\s+/) without its empty strings: the maximal runs of non-space
\* characters from index i on, cur being the run read so far
SplitSpaces(s, i, cur) ==
    IF i > Len(s) THEN (IF cur = "" THEN <<>> ELSE <<cur>>)
    ELSE IF IsSpace(CharAt(s, i))
         THEN (IF cur = "" THEN <<>> ELSE <<cur>>) \o SplitSpaces(s, i + 1, "")
         ELSE SplitSpaces(s, i + 1, cur \o CharAt(s, i))

RECURSIVE SplitOn(_, _, _, _)
\* s.split(sep) for a one-character separator, empty strings kept
SplitOn(s, sep, i, cur) ==
    IF i > Len(s) THEN <<cur>>
    ELSE IF CharAt(s, i) = sep
         THEN <<cur>> \o SplitOn(s, sep, i + 1, "")
         ELSE SplitOn(s, sep, i + 1, cur \o CharAt(s, i))

\* a non-empty string of \w characters: the regex ^\w+$
IsWord(s) == Len(s) > 0 /\ \A i \in 1..Len(s) : IsWordChar(CharAt(s, i))

IsNumber(s) == Len(s) > 0 /\ \A i \in 1..Len(s) : IsDigit(CharAt(s, i))

SeqToSet(q) == {q[i] : i \in 1..Len(q)}

-----------------------------------------------------------------------------
(* CommentAnalyzer: language profiles                                      *)

NoConfig == [none |-> TRUE]

JsKeywords ==
    <<"function", "const", "let", "var", "class", "if", "else", "for", "while",
      "return", "import", "export">>

TsKeywords ==
    <<"function", "const", "let", "var", "class", "interface", "type", "enum",
      "if", "else", "for", "while", "return", "import", "export">>

PyKeywords ==
    <<"def", "class", "if", "elif", "else", "for", "while", "return", "import",
      "from", "try", "except">>

JavaKeywords ==
    <<"public", "private", "protected", "class", "interface", "if", "else", "for",
      "while", "return", "import">>

CsKeywords ==
    <<"public", "private", "protected", "class", "interface", "namespace", "using",
      "if", "else", "for", "while", "return">>

HtmlKeywords == <<"div", "span", "html", "head", "body", "script", "style">>

CssKeywords == <<"class", "id", "color", "background", "margin", "padding">>

\* /\/\*[\s\S]*?\*\//g as its opening and closing delimiter
SlashStar == <<[open |-> "/*", close |-> "*/"]>>

\* /\/\*\*[\s\S]*?\*\//g
SlashStarStar == <<[open |-> "/**", close |-> "*/"]>>

\* a profile: singleLine is the marker of /<marker>.*$/gm ("" for null),
\* multiLine and docBlock the alternatives of the pattern (<<>> for null)
CLike(kw) ==
    [singleLine |-> "//", multiLine |-> SlashStar, docBlock |-> SlashStarStar,
     keywords |-> kw]

Quote == "\""

TripleQuote == Quote \o Quote \o Quote

\* multiLine: /"""[\s\S]*?"""|'''[\s\S]*?'''/g, docBlock: /"""[\s\S]*?"""/g
PythonConfig ==
    [singleLine |-> "#",
     multiLine |-> <<[open |-> TripleQuote, close |-> TripleQuote],
                     [open |-> ", close |-> "]>>,
     docBlock |-> <<[open |-> TripleQuote, close |-> TripleQuote]>>,
     keywords |-> PyKeywords]

HtmlConfig ==
    [singleLine |-> "", multiLine |-> <<[open |-> "<!--", close |-> "-->"]>>,
     docBlock |-> <<>>, keywords |-> HtmlKeywords]

CssConfig ==
    [singleLine |-> "", multiLine |-> SlashStar, docBlock |-> <<>>,
     keywords |-> CssKeywords]

\* getLanguageConfig with the C-like profile as the default of its table
getLanguageConfigWithDefault(id) ==
    CASE id \in {"javascript", "javascriptreact"} -> CLike(JsKeywords)
      [] id \in {"typescript", "typescriptreact"} -> CLike(TsKeywords)
      [] id = "python" -> PythonConfig
      [] id \in {"java", "c", "cpp"} -> CLike(JavaKeywords)
      [] id = "csharp" -> CLike(CsKeywords)
      [] id \in {"html", "xml"} -> HtmlConfig
      [] id = "css" -> CssConfig
      [] OTHER -> CLike(JsKeywords)

getLanguageConfig(id) ==
    CASE id \in {"javascript", "javascriptreact"} -> CLike(JsKeywords)
      [] id \in {"typescript", "typescriptreact"} -> CLike(TsKeywords)
      [] id = "python" -> PythonConfig
      [] id \in {"java", "c", "cpp"} -> CLike(JavaKeywords)
      [] id = "csharp" -> CLike(CsKeywords)
      [] id \in {"html", "xml"} -> HtmlConfig
      [] id = "css" -> CssConfig
      [] OTHER -> NoConfig

-----------------------------------------------------------------------------
(* CommentAnalyzer: normalisation                                          *)

RECURSIVE RunLen(_, _, _)
\* the length of the run of character ch that starts at index i of s
RunLen(s, ch, i) ==
    IF i <= Len(s) /\ CharAt(s, i) = ch THEN 1 + RunLen(s, ch, i + 1) ELSE 0

RECURSIVE StripDelimiters(_, _)
\* s.replace(/\/\*+|\*+\/|\/\/+|#+/g, '') from index i on: at each index the
\* alternatives are tried in order, each taking its longest run
StripDelimiters(s, i) ==
    IF i > Len(s) THEN ""
    ELSE LET c == CharAt(s, i)
             stars == RunLen(s, "*", i)
             slashes == RunLen(s, "/", i)
         IN  IF c = "/" /\ RunLen(s, "*", i + 1) > 0
                 THEN StripDelimiters(s, i + 1 + RunLen(s, "*", i + 1))
             ELSE IF c = "*" /\ CharAt(s, i + stars) = "/"
                 THEN StripDelimiters(s, i + stars + 1)
             ELSE IF c = "/" /\ slashes >= 2
                 THEN StripDelimiters(s, i + slashes)
             ELSE IF c = "#"
                 THEN StripDelimiters(s, i + RunLen(s, "#", i))
             ELSE c \o StripDelimiters(s, i + 1)

cleanCommentText(commentText) ==
    ToLowerCase(Trim(CollapseSpaces(StripDelimiters(commentText, 1), 1)))


-----------------------------------------------------------------------------
(* CommentAnalyzer: the rule predicates                                    *)

SomeIncluded(s, patterns) == \E k \in 1..Len(patterns) : Includes(s, patterns[k])

SomePrefix(s, patterns) == \E k \in 1..Len(patterns) : StartsWith(s, patterns[k])

criticalPatterns ==
    <<"eslint-disable", "eslint-enable", "jshint", "tslint", "prettier-ignore",
      "stylelint-disable", "stylelint-enable",
      "@ts-ignore", "@ts-expect-error", "@ts-check", "@ts-nocheck",
      "webpack:", "rollup:", "vite:", "esbuild:",
      "vue-ignore", "angular-ignore", "react-ignore",
      "copyright", "license", "mit license", "apache license", "gpl license",
      "todo:", "fixme:", "hack:", "note:", "warning:", "danger:", "important:",
      "bug:", "issue:", "ticket:", "jira:", "github:",
      "@param", "@returns", "@throws", "@deprecated", "@example", "@see",
      "@since", "@author", "@version",
      "#ifdef", "#ifndef", "#endif", "#pragma",
      "performance:", "optimization:", "benchmark:", "profiling:",
      "security:", "vulnerability:", "cve-", "sanitize:", "validate:">>

isCriticalComment(cleanComment) == SomeIncluded(cleanComment, criticalPatterns)

docPatterns ==
    <<"explains", "describes", "represents", "implements", "algorithm",
      "strategy", "pattern", "approach", "method", "technique",
      "purpose:", "goal:", "objective:", "requirements:", "assumptions:",
      "preconditions:", "postconditions:", "side effects:">>

isDocumentation(cleanComment, context) ==
    IF Len(cleanComment) < 10 THEN FALSE
    ELSE LET isAtFunctionStart ==
                 SomeIncluded(context.nextNonEmptyLine,
                              <<"function", "class", "def ", "public ", "private ">>)
             hasComplexExplanation ==
                 /\ Len(cleanComment) > 50
                 /\ SomeIncluded(cleanComment,
                                 <<"because", "however", "therefore", "algorithm",
                                   "implementation">>)
         IN  \/ SomeIncluded(cleanComment, docPatterns)
             \/ (isAtFunctionStart /\ Len(cleanComment) > 20)
             \/ hasComplexExplanation

codeSymbols ==
    <<"{", "}", "(", ")", "[", "]", ";", "=", "==", "===", "!=", "!==", "&&", "||",
      "++", "--">>

\* how many entries of list satisfy Test
CountIf(list, Test(_)) == Cardinality({k \in 1..Len(list) : Test(list[k])})

RECURSIVE SkipSpaces(_, _, _)
\* the first index from i, going by step, whose character is not \s
SkipSpaces(s, i, step) ==
    IF i >= 1 /\ i <= Len(s) /\ IsSpace(CharAt(s, i)) THEN SkipSpaces(s, i + step, step) ELSE i

\* hasVariableAssignment without the optional white space around the sign
hasVariableAssignmentTight(s) ==
    \E i \in 1..Len(s) :
        /\ CharAt(s, i) = "="
        /\ IsWordChar(CharAt(s, i - 1))
        /\ IsWordChar(CharAt(s, i + 1))

\* /\w+\s*=\s*\w+/.test(s)
hasVariableAssignment(s) ==
    \E i \in 1..Len(s) :
        /\ CharAt(s, i) = "="
        /\ IsWordChar(CharAt(s, SkipSpaces(s, i - 1, -1)))
        /\ IsWordChar(CharAt(s, SkipSpaces(s, i + 1, 1)))

\* /\w+\s*\([^)]*\)/.test(s)
hasFunctionCall(s) ==
    \E i \in 1..Len(s) :
        /\ CharAt(s, i) = "("
        /\ IsWordChar(CharAt(s, SkipSpaces(s, i - 1, -1)))
        /\ IndexFrom(s, ")", i + 1) > 0

\* /(if|for|while|try)\s*\(/.test(s)
hasCodeFlow(s) ==
    \E w \in {"if", "for", "while", "try"} :
        \E i \in 1..Len(s) :
            StartsAt(s, w, i) /\ CharAt(s, SkipSpaces(s, i + Len(w), 1)) = "("

\* cleanComment.includes(keyword + ' ') || cleanComment.includes(' ' + keyword)
hasKeyword(cleanComment, keyword) ==
    \/ Includes(cleanComment, keyword \o " ")
    \/ Includes(cleanComment, " " \o keyword)

isCommentedCode(cleanComment, languageConfig) ==
    IF languageConfig = NoConfig \/ Len(cleanComment) < 3 THEN FALSE
    ELSE LET HasSymbol(symbol) == Includes(cleanComment, symbol)
             HasKeyword(keyword) == hasKeyword(cleanComment, keyword)
             symbolCount == CountIf(codeSymbols, HasSymbol)
             keywordCount == CountIf(languageConfig.keywords, HasKeyword)
         IN  \/ symbolCount >= 3
             \/ keywordCount >= 2
             \/ hasVariableAssignment(cleanComment)
             \/ hasFunctionCall(cleanComment)
             \/ hasCodeFlow(cleanComment)


-----------------------------------------------------------------------------
(* Exact fractions for confidence values                                   *)

RECURSIVE Gcd(_, _)
Gcd(a, b) == IF b = 0 THEN a ELSE Gcd(b, a % b)

\* n/d in lowest terms (d > 0)
Frac(n, d) == LET g == Gcd(n, d) IN [n |-> n \div g, d |-> d \div g]

FracLeq(a, b) == a.n * b.d <= b.n * a.d

FracLess(a, b) == a.n * b.d < b.n * a.d

FracMin(a, b) == IF FracLeq(a, b) THEN a ELSE b

-----------------------------------------------------------------------------
(* CommentAnalyzer: redundancy and the remaining rule predicates           *)

semanticPairs ==
    <<[key |-> "get", synonyms |-> <<"fetch", "retrieve", "obtain">>],
      [key |-> "set", synonyms |-> <<"assign", "update", "change">>],
      [key |-> "create", synonyms |-> <<"make", "build", "generate", "new">>],
      [key |-> "delete", synonyms |-> <<"remove", "destroy", "clear">>],
      [key |-> "check", synonyms |-> <<"validate", "verify", "test">>],
      [key |-> "start", synonyms |-> <<"begin", "init", "initialize">>],
      [key |-> "end", synonyms |-> <<"finish", "complete", "stop">>]>>

IsAlnum(c) == IsLower(c) \/ IsUpper(c) \/ IsDigit(c)

\* words of s longer than 2: s.split(/\s+/).filter(word => word.length > 2)
LongWords(s) == LET Long(w) == Len(w) > 2 IN SelectSeq(SplitSpaces(s, 1, ""), Long)

\* wordWeight with the substring test tried before the exact test
wordWeightPartialFirst(commentWord, codeWords) ==
    IF \E k \in 1..Len(codeWords) :
           Includes(codeWords[k], commentWord) \/ Includes(commentWord, codeWords[k])
    THEN 7
    ELSE IF \E k \in 1..Len(codeWords) : codeWords[k] = commentWord THEN 10
    ELSE 5 * Cardinality({p \in 1..Len(semanticPairs) :
                /\ commentWord = semanticPairs[p].key
                /\ \E y \in 1..Len(semanticPairs[p].synonyms) :
                       \E k \in 1..Len(codeWords) :
                           codeWords[k] = semanticPairs[p].synonyms[y]})

\* the weight of one comment word, in tenths: exact 10, partial 7, semantic 5
wordWeight(commentWord, codeWords) ==
    IF \E k \in 1..Len(codeWords) : codeWords[k] = commentWord THEN 10
    ELSE IF \E k \in 1..Len(codeWords) :
                Includes(codeWords[k], commentWord) \/ Includes(commentWord, codeWords[k])
         THEN 7
    ELSE 5 * Cardinality({p \in 1..Len(semanticPairs) :
                /\ commentWord = semanticPairs[p].key
                /\ \E y \in 1..Len(semanticPairs[p].synonyms) :
                       \E k \in 1..Len(codeWords) :
                           codeWords[k] = semanticPairs[p].synonyms[y]})

RECURSIVE SumWeights(_, _, _)
SumWeights(commentWords, codeWords, k) ==
    IF k > Len(commentWords) THEN 0
    ELSE wordWeight(commentWords[k], codeWords) + SumWeights(commentWords, codeWords, k + 1)

\* calculateRedundancyScore without the Math.min that caps the score
calculateRedundancyScoreUncapped(cleanComment, context) ==
    IF Len(cleanComment) < 3 \/ context.nextNonEmptyLine = "" THEN Frac(0, 1)
    ELSE LET Blank(c) == IF IsAlnum(c) THEN c ELSE " "
             nextLine == MapChars(Blank, ToLowerCase(context.nextNonEmptyLine), 1)
             commentWords == LongWords(cleanComment)
             codeWords == LongWords(nextLine)
         IN  IF Len(commentWords) = 0 \/ Len(codeWords) = 0 THEN Frac(0, 1)
             ELSE Frac(SumWeights(commentWords, codeWords, 1), 10 * Len(commentWords))

calculateRedundancyScore(cleanComment, context) ==
    IF Len(cleanComment) < 3 \/ context.nextNonEmptyLine = "" THEN Frac(0, 1)
    ELSE LET Blank(c) == IF IsAlnum(c) THEN c ELSE " "
             nextLine == MapChars(Blank, ToLowerCase(context.nextNonEmptyLine), 1)
             commentWords == LongWords(cleanComment)
             codeWords == LongWords(nextLine)
         IN  IF Len(commentWords) = 0 \/ Len(codeWords) = 0 THEN Frac(0, 1)
             ELSE FracMin(Frac(SumWeights(commentWords, codeWords, 1),
                               10 * Len(commentWords)),
                          Frac(95, 100))

IsLetter(c) == IsLower(c) \/ IsUpper(c)

trivialVerbs ==
    {"increment", "decrement", "add", "subtract", "multiply", "divide", "open",
     "close", "show", "hide", "enable", "disable", "start", "stop", "return", "call"}

\* trivialPatterns.some(pattern => pattern.test(s)); every pattern is anchored
\* at both ends and made of literal words, single spaces and \w+
matchesTrivialPattern(s) ==
    LET t == SplitOn(s, " ", 1, "")
        n == Len(t)
    IN  \/ n = 2 /\ t[1] \in trivialVerbs /\ IsWord(t[2])
        \/ n = 4 /\ t[1] \in {"set", "assign"} /\ IsWord(t[2]) /\ t[3] = "to" /\ IsWord(t[4])
        \/ n = 3 /\ IsWord(t[1]) /\ t[2] = "equals" /\ IsWord(t[3])
        \/ n = 3 /\ t[1] \in {"loop", "iterate"} /\ t[2] = "through" /\ IsWord(t[3])
        \/ n = 5 /\ t[1] = "check" /\ t[2] = "if" /\ IsWord(t[3]) /\ t[4] = "is" /\ IsWord(t[5])
        \/ s \in {"constructor", "getter", "setter", "main function",
                  "helper function", "utility function"}

isTrivialComment(cleanComment, context) ==
    \/ /\ context.nextNonEmptyLine # ""
       /\ ToLowerCase(KeepOnly(IsLetter, cleanComment))
              = ToLowerCase(KeepOnly(IsLetter, ToLowerCase(context.nextNonEmptyLine)))
    \/ matchesTrivialPattern(cleanComment)

isEmptyComment(cleanComment) ==
    LET meaningfulContent == KeepOnly(IsWordChar, cleanComment)
    IN  Len(meaningfulContent) = 0 \/ Len(meaningfulContent) < 2

RECURSIVE CountMatches(_, _, _)
\* text.match(new RegExp(escaped p, 'g')): the non-overlapping occurrences of
\* the literal p in text from index i on, scanning left to right
CountMatches(text, p, i) ==
    LET at == IndexFrom(text, p, i)
    IN  IF at = 0 THEN 0 ELSE 1 + CountMatches(text, p, at + Max(Len(p), 1))

isDuplicateComment(cleanComment, currentComment, text) ==
    IF Len(cleanComment) < 5 THEN FALSE
    ELSE CountMatches(text, Trim(currentComment.text), 1) > 1

debugPrefixes ==
    <<"console.log", "print", "echo", "debug", "trace",
      "test", "testing", "temp", "temporary", "tmp",
      "remove this", "remove me", "remove later",
      "delete this", "delete me", "delete later",
      "work in progress", "wip",
      "placeholder", "stub",
      "broken", "doesnt work", "not working",
      "quick fix", "quick hack", "dirty fix",
      "remember to", "dont forget",
      "asap", "urgent", "priority",
      "review this", "review later", "check this", "check later",
      "delete before", "remove before",
      "for now", "temporarily">>

\* every debug pattern is a ^(a|b|...) prefix test
isDebugComment(cleanComment) == SomePrefix(cleanComment, debugPrefixes)

noiseWords ==
    {"test", "testing", "debug", "debugging", "temp", "temporary", "tmp",
     "old", "deprecated", "unused", "comment", "comments", "code", "codes",
     "fix", "fixed", "fixes", "change", "changed", "changes",
     "update", "updated", "updates"}

RECURSIVE matchesWordGroups(_, _, _)
\* /^(\w+\s*){1,n}$/ on s from index i: some split of the rest of s into at
\* least 1 and at most n groups, each one or more \w then any number of \s
matchesWordGroups(s, i, n) ==
    /\ n > 0
    /\ \E w \in i..Len(s) :
          /\ \A k \in i..w : IsWordChar(CharAt(s, k))
          /\ \E e \in w..Len(s) :
                /\ \A k \in (w + 1)..e : IsSpace(CharAt(s, k))
                /\ (e = Len(s) \/ matchesWordGroups(s, e + 1, n - 1))

\* /^[.]{3,}|[-]{3,}|[=]{3,}|[*]{3,}/: only the first alternative is anchored
isDecorative(s) ==
    StartsWith(s, "...") \/ Includes(s, "---") \/ Includes(s, "===") \/ Includes(s, "***")

RECURSIVE RunDigits(_, _)
\* the length of the run of digits that starts at index i of s
RunDigits(s, i) == IF IsDigit(CharAt(s, i)) THEN 1 + RunDigits(s, i + 1) ELSE 0

\* /^\d+$|^v?\d+\.\d+/
isVersionNumber(s) ==
    \/ IsNumber(s)
    \/ LET from == IF StartsWith(s, "v") THEN 2 ELSE 1
           digits == RunDigits(s, from)
       IN  /\ digits > 0
           /\ CharAt(s, from + digits) = "."
           /\ IsDigit(CharAt(s, from + digits + 1))

\* isNoiseComment without the pattern of very short comments
isNoiseCommentNoShort(cleanComment) ==
    \/ cleanComment \in noiseWords
    \/ isDecorative(cleanComment)
    \/ isVersionNumber(cleanComment)
    \/ Len(cleanComment) <= 2

\* isNoiseComment without the test of the length
isNoiseCommentNoLength(cleanComment) ==
    \/ cleanComment \in noiseWords
    \/ matchesWordGroups(cleanComment, 1, 3)
    \/ isDecorative(cleanComment)
    \/ isVersionNumber(cleanComment)

isNoiseComment(cleanComment) ==
    \/ cleanComment \in noiseWords
    \/ matchesWordGroups(cleanComment, 1, 3)
    \/ isDecorative(cleanComment)
    \/ isVersionNumber(cleanComment)
    \/ Len(cleanComment) <= 2

outdatedIndicators ==
    <<"old version", "previous version", "legacy", "deprecated",
      "no longer", "not used", "unused", "obsolete",
      "will be removed", "to be deleted", "remove this",
      "temporary fix", "quick fix", "workaround">>

isOutdatedComment(cleanComment) == SomeIncluded(cleanComment, outdatedIndicators)


-----------------------------------------------------------------------------
(* The host's document: getText, lineCount, lineAt, positionAt, offsetAt   *)

RECURSIVE Join(_, _)
\* the lines from index k on, joined by "\n"
Join(lines, k) ==
    IF k > Len(lines) THEN ""
    ELSE IF k = Len(lines) THEN lines[k]
    ELSE lines[k] \o "\n" \o Join(lines, k + 1)

\* document.getText()
GetText(lines) == Join(lines, 1)

\* the lines of a text: the inverse of GetText
LinesOf(text) == SplitOn(text, "\n", 1, "")

\* document.lineAt(n).text
LineAt(lines, n) == lines[n + 1]

RECURSIVE PositionFrom(_, _, _)
PositionFrom(lines, offset, ln) ==
    IF ln = Len(lines) - 1 \/ offset <= Len(lines[ln + 1])
    THEN [line |-> ln, character |-> Min(offset, Len(lines[ln + 1]))]
    ELSE PositionFrom(lines, offset - Len(lines[ln + 1]) - 1, ln + 1)

\* document.positionAt(offset), offset 0-based
PositionAt(lines, offset) == PositionFrom(lines, Max(offset, 0), 0)

RECURSIVE LineStart(_, _)
\* the offset at which line ln starts
LineStart(lines, ln) ==
    IF ln = 0 THEN 0 ELSE LineStart(lines, ln - 1) + Len(lines[ln]) + 1

\* document.offsetAt(position): a position past the last line is the end of
\* the document, a character past the end of its line is the end of the line
OffsetAt(lines, pos) ==
    IF pos.line >= Len(lines) THEN Len(GetText(lines))
    ELSE LineStart(lines, pos.line) + Min(pos.character, Len(lines[pos.line + 1]))

\* Position.compareTo
ComparePos(a, b) ==
    IF a.line < b.line THEN -1
    ELSE IF a.line > b.line THEN 1
    ELSE IF a.character < b.character THEN -1
    ELSE IF a.character > b.character THEN 1
    ELSE 0

-----------------------------------------------------------------------------
(* CommentAnalyzer: context and extraction                                 *)

RECURSIVE getNextNonEmptyLine(_, _)
getNextNonEmptyLine(lines, startLine) ==
    IF startLine >= Len(lines) THEN ""
    ELSE LET line == Trim(LineAt(lines, startLine))
         IN  IF Len(line) > 0 THEN line ELSE getNextNonEmptyLine(lines, startLine + 1)

\* line.match(/^(\s*)/)[1].length
getIndentLevel(line) == Len(line) - Len(TrimStart(line))

getContext(lines, lineNumber) ==
    [previousLine |-> IF lineNumber > 0 THEN Trim(LineAt(lines, lineNumber - 1)) ELSE "",
     currentLine |-> Trim(LineAt(lines, lineNumber)),
     nextLine |-> IF lineNumber < Len(lines) - 1
                  THEN Trim(LineAt(lines, lineNumber + 1)) ELSE "",
     nextNonEmptyLine |-> getNextNonEmptyLine(lines, lineNumber + 1),
     indentLevel |-> getIndentLevel(LineAt(lines, lineNumber))]

RECURSIVE ScanSingle(_, _, _)
\* the matches of /<marker>.*$/gm in text from index from on: each starts at
\* a marker and runs to the end of its line
ScanSingle(text, marker, from) ==
    LET at == IndexFrom(text, marker, from)
        nl == IndexFrom(text, "\n", at)
        end == IF nl = 0 THEN Len(text) + 1 ELSE nl
    IN  IF at = 0 THEN <<>>
        ELSE <<[index |-> at - 1, text |-> SubSeq(text, at, end - 1)]>>
                 \o ScanSingle(text, marker, end)

\* the alternative of alts that matches at index i of text (0 if none): its
\* opening delimiter is at i and its closing delimiter follows
AltAt(text, alts, i) ==
    LET ok == {a \in 1..Len(alts) :
                   /\ StartsAt(text, alts[a].open, i)
                   /\ IndexFrom(text, alts[a].close, i + Len(alts[a].open)) > 0}
    IN  IF ok = {} THEN 0 ELSE CHOOSE a \in ok : \A b \in ok : a <= b

RECURSIVE ScanMulti(_, _, _)
\* the matches of /<open>[\s\S]*?<close>|.../g in text from index from on:
\* leftmost match first, each ending at the first closing delimiter
ScanMulti(text, alts, from) ==
    LET starts == {i \in from..Len(text) : AltAt(text, alts, i) > 0}
    IN  IF starts = {} THEN <<>>
        ELSE LET at == CHOOSE i \in starts : \A j \in starts : i <= j
                 alt == alts[AltAt(text, alts, at)]
                 close == IndexFrom(text, alt.close, at + Len(alt.open))
                 end == close + Len(alt.close)
             IN  <<[index |-> at - 1, text |-> SubSeq(text, at, end - 1)]>>
                     \o ScanMulti(text, alts, end)

\* the comment record pushed for one match
MakeComment(lines, type, match, inline) ==
    LET startPos == PositionAt(lines, match.index)
        endPos == PositionAt(lines, match.index + Len(match.text))
    IN  [type |-> type,
         text |-> match.text,
         range |-> [start |-> startPos, end |-> endPos],
         lineNumber |-> startPos.line,
         context |-> getContext(lines, startPos.line),
         isInlineComment |-> inline]

\* extractComments leaving out the single-line matches that start inside a
\* multi-line match
extractCommentsOutsideBlocks(lines, id) ==
    LET languageConfig == getLanguageConfig(id)
        text == GetText(lines)
    IN  IF languageConfig = NoConfig THEN <<>>
        ELSE LET multis == IF languageConfig.multiLine # <<>>
                           THEN ScanMulti(text, languageConfig.multiLine, 1)
                           ELSE <<>>
                 Outside(match) ==
                     \A m \in 1..Len(multis) :
                         \/ match.index < multis[m].index
                         \/ match.index >= multis[m].index + Len(multis[m].text)
                 singles == IF languageConfig.singleLine # ""
                            THEN SelectSeq(ScanSingle(text, languageConfig.singleLine, 1),
                                           Outside)
                            ELSE <<>>
             IN  [k \in 1..Len(singles) |->
                     MakeComment(lines, "single", singles[k],
                                 PositionAt(lines, singles[k].index).character > 0)]
                 \o [k \in 1..Len(multis) |->
                        MakeComment(lines, "multi", multis[k], FALSE)]

extractComments(lines, id) ==
    LET languageConfig == getLanguageConfig(id)
        text == GetText(lines)
    IN  IF languageConfig = NoConfig THEN <<>>
        ELSE LET singles == IF languageConfig.singleLine # ""
                            THEN ScanSingle(text, languageConfig.singleLine, 1)
                            ELSE <<>>
                 multis == IF languageConfig.multiLine # <<>>
                           THEN ScanMulti(text, languageConfig.multiLine, 1)
                           ELSE <<>>
             IN  [k \in 1..Len(singles) |->
                     MakeComment(lines, "single", singles[k],
                                 PositionAt(lines, singles[k].index).character > 0)]
                 \o [k \in 1..Len(multis) |->
                        MakeComment(lines, "multi", multis[k], FALSE)]


-----------------------------------------------------------------------------
(* CommentAnalyzer.analyzeComment: the classification pipeline             *)

\* Result without the reasons.push
ResultWithoutReason(category, shouldRemove, confidence, reason) ==
    [category |-> category, shouldRemove |-> shouldRemove,
     confidence |-> confidence, reasons |-> <<>>]

Result(category, shouldRemove, confidence, reason) ==
    [category |-> category, shouldRemove |-> shouldRemove,
     confidence |-> confidence, reasons |-> <<reason>>]

\* comment.type === 'docblock' || comment.isDocBlock
isDocBlockComment(comment) ==
    \/ comment.type = "docblock"
    \/ ("isDocBlock" \in DOMAIN comment /\ comment.isDocBlock)

\* analyzeComment with the commented-code test moved before the critical test
analyzeCommentCodeFirst(comment, lines, id) ==
    LET cleanComment == cleanCommentText(comment.text)
        languageConfig == getLanguageConfig(id)
        redundancyScore == calculateRedundancyScore(cleanComment, comment.context)
    IN  IF isDocBlockComment(comment)
            THEN Result("documentation", FALSE, Frac(9, 10), "API documentation block")
        ELSE IF isCommentedCode(cleanComment, languageConfig)
            THEN Result("commented_code", TRUE, Frac(9, 10),
                        "Appears to be commented-out code")
        ELSE IF isCriticalComment(cleanComment)
            THEN Result("critical", FALSE, Frac(95, 100),
                        "Contains critical directives or important metadata")
        ELSE IF isDocumentation(cleanComment, comment.context)
            THEN Result("documentation", FALSE, Frac(85, 100),
                        "Appears to be meaningful documentation")
        ELSE IF FracLess(Frac(1, 2), redundancyScore)
            THEN Result("redundant", TRUE, redundancyScore,
                        "Comment is redundant with the code it describes")
        ELSE IF isNoiseComment(cleanComment)
            THEN Result("noise", TRUE, Frac(8, 10),
                        "Comment appears to be noise or placeholder")
        ELSE IF isOutdatedComment(cleanComment)
            THEN Result("outdated", TRUE, Frac(7, 10),
                        "Comment appears to be outdated or incorrect")
        ELSE IF isTrivialComment(cleanComment, comment.context)
            THEN Result("trivial", TRUE, Frac(75, 100), "Comment states the obvious")
        ELSE IF isEmptyComment(cleanComment)
            THEN Result("empty", TRUE, Frac(95, 100),
                        "Comment is empty or contains only whitespace")
        ELSE IF isDuplicateComment(cleanComment, comment, GetText(lines))
            THEN Result("duplicate", TRUE, Frac(8, 10), "Comment is duplicated elsewhere")
        ELSE IF isDebugComment(cleanComment)
            THEN Result("debug", TRUE, Frac(85, 100),
                        "Comment appears to be debug or temporary")
        ELSE Result("regular", FALSE, Frac(3, 10),
                    "Regular comment - preserving for safety")

analyzeComment(comment, lines, id) ==
    LET cleanComment == cleanCommentText(comment.text)
        languageConfig == getLanguageConfig(id)
        redundancyScore == calculateRedundancyScore(cleanComment, comment.context)
    IN  IF isDocBlockComment(comment)
            THEN Result("documentation", FALSE, Frac(9, 10), "API documentation block")
        ELSE IF isCriticalComment(cleanComment)
            THEN Result("critical", FALSE, Frac(95, 100),
                        "Contains critical directives or important metadata")
        ELSE IF isDocumentation(cleanComment, comment.context)
            THEN Result("documentation", FALSE, Frac(85, 100),
                        "Appears to be meaningful documentation")
        ELSE IF isCommentedCode(cleanComment, languageConfig)
            THEN Result("commented_code", TRUE, Frac(9, 10),
                        "Appears to be commented-out code")
        ELSE IF FracLess(Frac(1, 2), redundancyScore)
            THEN Result("redundant", TRUE, redundancyScore,
                        "Comment is redundant with the code it describes")
        ELSE IF isNoiseComment(cleanComment)
            THEN Result("noise", TRUE, Frac(8, 10),
                        "Comment appears to be noise or placeholder")
        ELSE IF isOutdatedComment(cleanComment)
            THEN Result("outdated", TRUE, Frac(7, 10),
                        "Comment appears to be outdated or incorrect")
        ELSE IF isTrivialComment(cleanComment, comment.context)
            THEN Result("trivial", TRUE, Frac(75, 100), "Comment states the obvious")
        ELSE IF isEmptyComment(cleanComment)
            THEN Result("empty", TRUE, Frac(95, 100),
                        "Comment is empty or contains only whitespace")
        ELSE IF isDuplicateComment(cleanComment, comment, GetText(lines))
            THEN Result("duplicate", TRUE, Frac(8, 10), "Comment is duplicated elsewhere")
        ELSE IF isDebugComment(cleanComment)
            THEN Result("debug", TRUE, Frac(85, 100),
                        "Comment appears to be debug or temporary")
        ELSE Result("regular", FALSE, Frac(3, 10),
                    "Regular comment - preserving for safety")

\* analyzeAll as an incremental pass: the comments the statistics of the
\* analyzer already count are taken as analysed and skipped
analyzeAllIncremental(comments, lines, id) ==
    LET rest == SubSeq(comments, Min(statistics.totalComments, Len(comments)) + 1,
                       Len(comments))
    IN  [k \in 1..Len(rest) |->
            [comment |-> rest[k], analysis |-> analyzeComment(rest[k], lines, id)]]

\* the loop of cleanComments and of the remove-all command over the comments
analyzeAll(comments, lines, id) ==
    [k \in 1..Len(comments) |->
        [comment |-> comments[k], analysis |-> analyzeComment(comments[k], lines, id)]]


-----------------------------------------------------------------------------
(* CommentCleaner: the removal engine                                      *)

RECURSIVE InsertDescending(_, _, _)
\* item placed into the sorted list after every entry that does not start
\* before it, from index k on
InsertDescending(sorted, item, k) ==
    IF k > Len(sorted) THEN Append(sorted, item)
    ELSE IF ComparePos(item.comment.range.start, sorted[k].comment.range.start) > 0
         THEN SubSeq(sorted, 1, k - 1) \o <<item>> \o SubSeq(sorted, k, Len(sorted))
         ELSE InsertDescending(sorted, item, k + 1)

RECURSIVE SortFrom(_, _, _)
SortFrom(list, k, sorted) ==
    IF k > Len(list) THEN sorted
    ELSE SortFrom(list, k + 1, InsertDescending(sorted, list[k], 1))

\* q from its last entry to its first
Reverse(q) == [k \in 1..Len(q) |-> q[Len(q) + 1 - k]]

\* sortDescending with the operands of the comparison exchanged: earlier
\* start first
sortAscending(list) == Reverse(SortFrom(list, 1, <<>>))

\* commentsToRemove.sort((a, b) => b.comment.range.start.compareTo(a.comment.range.start)):
\* a stable sort, later start first
sortDescending(list) == SortFrom(list, 1, <<>>)

\* beforeComment.trim() === ''
isWholeLine(lines, range) ==
    Trim(Substring(LineAt(lines, range.start.line), 0, range.start.character)) = ""

\* deletionRange whose whole-line range stops at the end of the line
deletionRangeToLineEnd(lines, item) ==
    LET range == item.comment.range
    IN  IF isWholeLine(lines, range)
        THEN [start |-> [line |-> range.start.line, character |-> 0],
              end |-> [line |-> range.start.line,
                       character |-> Len(LineAt(lines, range.start.line))]]
        ELSE range

\* the range one item of the forEach hands to editBuilder.delete
deletionRange(lines, item) ==
    LET range == item.comment.range
    IN  IF isWholeLine(lines, range)
        THEN [start |-> [line |-> range.start.line, character |-> 0],
              end |-> [line |-> range.start.line + 1, character |-> 0]]
        ELSE range

\* the deletions of the edit callback, in the order they are issued
removalPlan(lines, sorted) == [k \in 1..Len(sorted) |-> deletionRange(lines, sorted[k])]

\* document.lineAt throws for a line the document does not have
planThrows(lines, list) ==
    \E k \in 1..Len(list) : list[k].comment.range.start.line >= Len(lines)

-----------------------------------------------------------------------------
(* The host's editor.edit: one transaction over the document as it was     *)

\* the 0-based offsets a range covers, positions validated by the document
Covered(lines, range) ==
    {o \in 0..(Len(GetText(lines)) - 1) :
        OffsetAt(lines, range.start) <= o /\ o < OffsetAt(lines, range.end)}

RECURSIVE KeepOffsets(_, _, _)
\* text without the characters whose 0-based offset is in gone, from offset o on
KeepOffsets(text, gone, o) ==
    IF o >= Len(text) THEN ""
    ELSE (IF o \in gone THEN "" ELSE CharAt(text, o + 1)) \o KeepOffsets(text, gone, o + 1)

\* the lines after deleting every range of ranges from the document as it was
applyEdits(lines, ranges) ==
    LET gone == UNION {Covered(lines, ranges[k]) : k \in 1..Len(ranges)}
    IN  LinesOf(KeepOffsets(GetText(lines), gone, 0))

\* the host refuses a transaction with two ranges that overlap
rangesOverlap(lines, ranges) ==
    \E i, j \in 1..Len(ranges) :
        i # j /\ Covered(lines, ranges[i]) \cap Covered(lines, ranges[j]) # {}


-----------------------------------------------------------------------------
(* Inputs of the command model                                             *)

\* commands one editor session starts
MaxRuns == 2

\* the documents the commands are run on
Corpus ==
    {[languageId |-> "python", lines |-> <<"# old version", "x = get_value()", "">>],
     [languageId |-> "python", lines |-> <<"# get values now", "x = get_value()">>],
     [languageId |-> "javascript",
      lines |-> <<"/** @param x the input */", "function f(x) {}">>],
     [languageId |-> "javascript", lines |-> <<"// x = x + 1", "x = x + 1;", "">>],
     [languageId |-> "javascript",
      lines |-> <<"// todo: tidy up", "   // noise", "x = 1; // noise">>],
     [languageId |-> "javascript", lines |-> <<"x /* a", "// b */", "y = 2;">>],
     [languageId |-> "javascript", lines |-> <<"let total = 0;", "return total;">>],
     [languageId |-> "javascript", lines |-> <<"// the format notif here", "x = 1;">>],
     [languageId |-> "javascript", lines |-> <<"// see a, b", "a = 1;", "// see a, b">>],
     [languageId |-> "plaintext", lines |-> <<"// old version">>]}

\* cleanComments(options): no confidenceThreshold, or one in [0, 1]
Options ==
    {[given |-> FALSE, value |-> Frac(0, 1)]}
        \cup {[given |-> TRUE, value |-> t] : t \in {Frac(0, 1), Frac(4, 10), Frac(8, 10)}}

\* options.confidenceThreshold || 0.6
thresholdInForce(options) ==
    IF options.given /\ options.value.n # 0 THEN options.value ELSE Frac(6, 10)

NoStatistics ==
    [totalComments |-> 0, preservedComments |-> 0, removedComments |-> 0,
     categories |-> <<>>]

RangesOf(list) == [k \in 1..Len(list) |-> list[k].comment.range]

\* the sub-lists of list, entries kept in order, as sets of indexes
Selections(list) == SUBSET (1..Len(list))

RECURSIVE PickFrom(_, _, _)
PickFrom(list, picked, k) ==
    IF k > Len(list) THEN <<>>
    ELSE (IF k \in picked THEN <<list[k]>> ELSE <<>>) \o PickFrom(list, picked, k + 1)

Pick(list, picked) == PickFrom(list, picked, 1)

-----------------------------------------------------------------------------
(* CommentCleaner: the commands and their dialogs                          *)

\* the filter on the confidence alone
removableByConfidence(all, options) ==
    LET Removable(item) == FracLeq(thresholdInForce(options), item.analysis.confidence)
    IN  SelectSeq(all, Removable)

\* analyses.filter(item => item.analysis.shouldRemove &&
\*                         item.analysis.confidence >= (options.confidenceThreshold || 0.6))
removableComments(all, options) ==
    LET Removable(item) ==
            /\ item.analysis.shouldRemove
            /\ FracLeq(thresholdInForce(options), item.analysis.confidence)
    IN  SelectSeq(all, Removable)

Init ==
    /\ \E d \in Corpus : languageId = d.languageId /\ doc = d.lines
    /\ pc = "idle"
    /\ threshold = [given |-> FALSE, value |-> Frac(0, 1)]
    /\ analyses = <<>>
    /\ pending = <<>>
    /\ plan = <<>>
    /\ snapshot = <<>>
    /\ decorations = <<>>
    /\ statistics = NoStatistics
    /\ message = <<>>
    /\ route = "none"
    /\ runs = 0

\* cleanComments(options), up to the dialog of showDetailedResults
CleanComments(options) ==
    /\ pc = "idle"
    /\ runs < MaxRuns
    /\ runs' = runs + 1
    /\ threshold' = options
    /\ route' = "none"
    /\ UNCHANGED <<languageId, doc, plan, snapshot>>
    /\ IF getLanguageConfig(languageId) = NoConfig
       THEN /\ message' = <<"unsupported">>
            /\ UNCHANGED <<pc, analyses, pending, decorations, statistics>>
       ELSE LET comments == extractComments(doc, languageId)
                all == analyzeAll(comments, doc, languageId)
                removable == removableComments(all, options)
            IN  /\ statistics' = [statistics EXCEPT !.totalComments = Len(comments)]
                /\ analyses' = all
                /\ pending' = removable
                /\ IF Len(comments) = 0
                   THEN message' = <<"noComments">> /\ UNCHANGED <<pc, decorations>>
                   ELSE IF Len(removable) = 0
                   THEN message' = <<"noUnnecessary">> /\ UNCHANGED <<pc, decorations>>
                   ELSE /\ message' = <<>>
                        /\ decorations' = RangesOf(removable)
                        /\ pc' = "results"

\* the remove-all command, up to the dialog of removeAllCommentsWithConfirmation
RemoveAllCommand ==
    /\ pc = "idle"
    /\ runs < MaxRuns
    /\ runs' = runs + 1
    /\ route' = "none"
    /\ UNCHANGED <<languageId, doc, plan, snapshot, threshold>>
    /\ IF getLanguageConfig(languageId) = NoConfig
       THEN /\ message' = <<"unsupported">>
            /\ UNCHANGED <<pc, analyses, pending, decorations, statistics>>
       ELSE LET comments == extractComments(doc, languageId)
                all == analyzeAll(comments, doc, languageId)
            IN  /\ statistics' = [statistics EXCEPT !.totalComments = Len(comments)]
                /\ analyses' = all
                /\ pending' = all
                /\ IF Len(comments) = 0
                   THEN message' = <<"noComments">> /\ UNCHANGED <<pc, decorations>>
                   ELSE /\ message' = <<>>
                        /\ decorations' = RangesOf(all)
                        /\ pc' = "nuke"

\* the answer to the dialog of showDetailedResults, and the switch on it
ResultsChoice(action) ==
    /\ pc = "results"
    /\ UNCHANGED <<languageId, doc, threshold, analyses, plan, snapshot, statistics,
                   route, runs>>
    /\ CASE action = "Preview & Remove" ->
                /\ decorations' = RangesOf(pending)
                /\ pc' = "preview"
                /\ UNCHANGED <<pending, message>>
         [] action = "Review & Select" ->
                /\ decorations' = <<>>
                /\ pc' = "select"
                /\ UNCHANGED <<pending, message>>
         [] action = "Remove ALL Comments" ->
                /\ decorations' = RangesOf(analyses)
                /\ pending' = analyses
                /\ pc' = "nuke"
                /\ UNCHANGED message
         [] action = "Show Report" ->
                /\ decorations' = <<>>
                /\ message' = Append(message, "report")
                /\ pc' = "idle"
                /\ UNCHANGED pending
         [] OTHER ->
                /\ decorations' = <<>>
                /\ pc' = "idle"
                /\ UNCHANGED <<pending, message>>

\* the answer to the quick pick of selectiveRemoval: the picked entries
SelectChoice(picked) ==
    /\ pc = "select"
    /\ picked \in Selections(pending)
    /\ UNCHANGED <<languageId, doc, threshold, analyses, plan, snapshot, statistics,
                   message, route, runs>>
    /\ IF picked # {}
       THEN /\ pending' = Pick(pending, picked)
            /\ decorations' = RangesOf(Pick(pending, picked))
            /\ pc' = "preview"
       ELSE /\ pc' = "idle"
            /\ UNCHANGED <<pending, decorations>>

\* removeComments(editor, list) up to the await of editor.edit
StartRemoval(list, by) ==
    /\ route' = by
    /\ snapshot' = doc
    /\ pending' = sortDescending(list)
    /\ IF planThrows(doc, list)
       THEN /\ plan' = <<>>
            /\ message' = Append(message, "error")
            /\ pc' = "idle"
       ELSE /\ plan' = removalPlan(doc, sortDescending(list))
            /\ pc' = "edit"
            /\ UNCHANGED message

\* PreviewChoice without the test of the answer
PreviewChoiceUnconfirmed(choice) ==
    /\ pc = "preview"
    /\ decorations' = <<>>
    /\ UNCHANGED <<languageId, doc, threshold, analyses, statistics, runs>>
    /\ StartRemoval(pending, "preview")

\* the answer to the modal dialog of showRemovalPreview
PreviewChoice(choice) ==
    /\ pc = "preview"
    /\ decorations' = <<>>
    /\ UNCHANGED <<languageId, doc, threshold, analyses, statistics, runs>>
    /\ IF choice = "Yes, Remove Comments"
       THEN StartRemoval(pending, "preview")
       ELSE pc' = "idle" /\ UNCHANGED <<pending, plan, snapshot, message, route>>

\* NukeChoice with the decorations left on the editor
NukeChoiceDecorated(choice) ==
    /\ pc = "nuke"
    /\ UNCHANGED <<languageId, doc, threshold, statistics, runs, decorations>>
    /\ IF choice = "Yes, NUKE ALL Comments"
       THEN StartRemoval(pending, "nuke") /\ analyses' = sortDescending(pending)
       ELSE pc' = "idle" /\ UNCHANGED <<analyses, pending, plan, snapshot, message, route>>

\* the answer to the modal dialog of removeAllCommentsWithConfirmation; the
\* list is allAnalyses itself, which removeComments sorts in place
NukeChoice(choice) ==
    /\ pc = "nuke"
    /\ decorations' = <<>>
    /\ UNCHANGED <<languageId, doc, threshold, statistics, runs>>
    /\ IF choice = "Yes, NUKE ALL Comments"
       THEN StartRemoval(pending, "nuke") /\ analyses' = sortDescending(pending)
       ELSE pc' = "idle" /\ UNCHANGED <<analyses, pending, plan, snapshot, message, route>>

RECURSIVE CountCategories(_, _, _)
\* updateStatistics: one more for the category of each removed comment
CountCategories(categories, removed, k) ==
    IF k > Len(removed) THEN categories
    ELSE LET cat == removed[k].analysis.category
             seen == IF cat \in DOMAIN categories THEN categories[cat] ELSE 0
         IN  CountCategories([c \in DOMAIN categories \cup {cat} |->
                                  IF c = cat THEN seen + 1 ELSE categories[c]],
                             removed, k + 1)

\* EditDone with the statistics updated before the outcome of the edit is
\* looked at
EditDoneCountingFirst(applied) ==
    /\ pc = "edit"
    /\ pc' = "idle"
    /\ UNCHANGED <<languageId, threshold, analyses, pending, plan, snapshot,
                   decorations, route, runs>>
    /\ IF rangesOverlap(doc, plan)
       THEN /\ message' = Append(message, "error")
            /\ UNCHANGED <<doc, statistics>>
       ELSE /\ doc' = IF applied THEN applyEdits(doc, plan) ELSE doc
            /\ statistics' =
                   [statistics EXCEPT
                       !.removedComments = Len(pending),
                       !.categories = CountCategories(@, pending, 1)]
            /\ message' =
                   message \o <<IF applied THEN "removed" ELSE "failed">>
                           \o (IF route = "nuke" THEN <<"nuclearComplete">> ELSE <<>>)

\* the completion of editor.edit and the rest of removeComments and its caller
EditDone(applied) ==
    /\ pc = "edit"
    /\ pc' = "idle"
    /\ UNCHANGED <<languageId, threshold, analyses, pending, plan, snapshot,
                   decorations, route, runs>>
    /\ IF rangesOverlap(doc, plan)
       THEN /\ message' = Append(message, "error")
            /\ UNCHANGED <<doc, statistics>>
       ELSE /\ doc' = IF applied THEN applyEdits(doc, plan) ELSE doc
            /\ statistics' =
                   IF applied
                   THEN [statistics EXCEPT
                            !.removedComments = Len(pending),
                            !.categories = CountCategories(@, pending, 1)]
                   ELSE statistics
            /\ message' =
                   message \o <<IF applied THEN "removed" ELSE "failed">>
                           \o (IF route = "nuke" THEN <<"nuclearComplete">> ELSE <<>>)

\* what a dialog resolves to when it is dismissed without an answer
Dismissed == "undefined"

ResultsActions ==
    {"Preview & Remove", "Review & Select", "Remove ALL Comments", "Show Report", "Cancel",
     Dismissed}

PreviewAnswers == {"Yes, Remove Comments", "No, Cancel", Dismissed}

NukeAnswers == {"Yes, NUKE ALL Comments", "No, Cancel", Dismissed}

Next ==
    \/ \E options \in Options : CleanComments(options)
    \/ RemoveAllCommand
    \/ \E action \in ResultsActions : ResultsChoice(action)
    \/ \E picked \in Selections(pending) : SelectChoice(picked)
    \/ \E choice \in PreviewAnswers : PreviewChoice(choice)
    \/ \E choice \in NukeAnswers : NukeChoice(choice)
    \/ \E applied \in BOOLEAN : EditDone(applied)

Spec == Init /\ [][Next]_vars


-----------------------------------------------------------------------------
(* The commands with a document that changes while a dialog is open        *)

\* lines typed into the document while the commands are suspended
MaxTypedLines == 1

TypedLine == "y = 0;"

\* editor.document is the live document: while a command awaits the answer
\* to a dialog, a line is typed above the first line
DocumentEdited ==
    /\ pc \in {"results", "select", "preview", "nuke"}
    /\ Len(SelectSeq(doc, LAMBDA line : line = TypedLine)) < MaxTypedLines
    /\ doc' = <<TypedLine>> \o doc
    /\ UNCHANGED <<languageId, pc, threshold, analyses, pending, plan, snapshot,
                   decorations, statistics, message, route, runs>>

LiveNext == Next \/ DocumentEdited

LiveSpec == Init /\ [][LiveNext]_vars

-----------------------------------------------------------------------------
(* The removal engine on its own: removeComments on any selection          *)

\* lines a document of the removal model has at most
MaxLines == 3

RemovalLines == {"  // n", "x = 1; // n", "x /* a", "// b */", "/* c */ y", "  /* d"}

RemovalDocs == UNION {[1..n -> RemovalLines] : n \in 1..MaxLines}

RemovalInit ==
    /\ languageId = "javascript"
    /\ doc \in RemovalDocs
    /\ pc = "idle"
    /\ threshold = [given |-> FALSE, value |-> Frac(0, 1)]
    /\ analyses = <<>>
    /\ pending = <<>>
    /\ plan = <<>>
    /\ snapshot = <<>>
    /\ decorations = <<>>
    /\ statistics = NoStatistics
    /\ message = <<>>
    /\ route = "none"
    /\ runs = 0

\* extractComments and the analysis loop on the document
AnalyzeDocument ==
    /\ pc = "idle"
    /\ runs = 0
    /\ runs' = 1
    /\ analyses' = analyzeAll(extractComments(doc, languageId), doc, languageId)
    /\ statistics' = [statistics EXCEPT
                         !.totalComments = Len(extractComments(doc, languageId))]
    /\ UNCHANGED <<languageId, doc, pc, threshold, pending, plan, snapshot,
                   decorations, message, route>>

\* removeComments(editor, the picked entries of the analyses)
RemoveSelected(picked) ==
    /\ pc = "idle"
    /\ runs = 1
    /\ runs' = 2
    /\ picked \in Selections(analyses) \ {{}}
    /\ StartRemoval(Pick(analyses, picked), "direct")
    /\ UNCHANGED <<languageId, doc, threshold, analyses, decorations, statistics>>

RemovalNext ==
    \/ AnalyzeDocument
    \/ \E picked \in Selections(analyses) : RemoveSelected(picked)
    \/ \E applied \in BOOLEAN : EditDone(applied)

RemovalSpec == RemovalInit /\ [][RemovalNext]_vars

-----------------------------------------------------------------------------
(* The classifier on its own: analyzeComment on any comment                *)

\* fragments a comment body of the classifier model is made of at most
MaxFragments == 2

Fragments ==
    {"todo: fix", "explains it", "x = y", "const let", "get value",
     "legacy", "set x to y", "!?", "wip", "so it is ok"}

RECURSIVE Bodies(_)
\* the comment bodies of n fragments, joined by single spaces
Bodies(n) ==
    IF n = 1 THEN Fragments
    ELSE {b \o " " \o f : b \in Bodies(n - 1), f \in Fragments}

CommentBodies == UNION {Bodies(n) : n \in 1..MaxFragments}

FollowingLine == "x = get_value()"

CommentMarker(id) == getLanguageConfig(id).singleLine \o " "

\* following lines without a word of more than two characters, and with
\* synonyms and longer forms of the words of the fragments
OtherFollowingLines == {"i = 1", "fetch(values)"}

\* what follows the marker in the comments of at most two characters
ShortBodies == {"", " ", "x", " ok", "!", "=1", "--"}

\* a comment line and the line after it and, for the duplicate rule, the
\* comment line once more; the one-fragment comments also before each of
\* the other following lines and as the last line; the short comments
AnalyzerDocs(id) ==
    {<<CommentMarker(id) \o b, FollowingLine>> : b \in CommentBodies}
        \cup {<<CommentMarker(id) \o b, FollowingLine, CommentMarker(id) \o b>> :
                  b \in CommentBodies}
        \cup {<<CommentMarker(id) \o f, l>> : f \in Fragments, l \in OtherFollowingLines}
        \cup {<<CommentMarker(id) \o f>> : f \in Fragments}
        \cup {<<getLanguageConfig(id).singleLine \o b, FollowingLine>> : b \in ShortBodies}
        \cup {<<getLanguageConfig(id).singleLine \o b>> : b \in ShortBodies}

AnalyzerInit ==
    /\ languageId \in {"javascript", "python"}
    /\ doc \in AnalyzerDocs(languageId)
    /\ pc = "idle"
    /\ threshold = [given |-> FALSE, value |-> Frac(0, 1)]
    /\ analyses = <<>>
    /\ pending = <<>>
    /\ plan = <<>>
    /\ snapshot = <<>>
    /\ decorations = <<>>
    /\ statistics = NoStatistics
    /\ message = <<>>
    /\ route = "none"
    /\ runs = 0

\* analyzeComment(comment, document) for the comment on the first line, of
\* the given type
AnalyzeFirstLine(type) ==
    /\ pc = "idle"
    /\ runs = 0
    /\ runs' = 1
    /\ LET comment == MakeComment(doc, type, [index |-> 0, text |-> doc[1]], FALSE)
       IN  analyses' = <<[comment |-> comment,
                          analysis |-> analyzeComment(comment, doc, languageId)]>>
    /\ UNCHANGED <<languageId, doc, pc, threshold, pending, plan, snapshot,
                   decorations, statistics, message, route>>

AnalyzerNext == \E type \in {"single", "docblock"} : AnalyzeFirstLine(type)

AnalyzerSpec == AnalyzerInit /\ [][AnalyzerNext]_vars


-----------------------------------------------------------------------------
(* Properties of the classifier                                            *)

\* the firing conditions of the twelve rules, in the order of the pipeline
ruleFires(comment, lines, id) ==
    LET clean == cleanCommentText(comment.text)
    IN  <<isDocBlockComment(comment),
          isCriticalComment(clean),
          isDocumentation(clean, comment.context),
          isCommentedCode(clean, getLanguageConfig(id)),
          FracLess(Frac(1, 2), calculateRedundancyScore(clean, comment.context)),
          isNoiseComment(clean),
          isOutdatedComment(clean),
          isTrivialComment(clean, comment.context),
          isEmptyComment(clean),
          isDuplicateComment(clean, comment, GetText(lines)),
          isDebugComment(clean),
          TRUE>>

ruleCategory ==
    <<"documentation", "critical", "documentation", "commented_code", "redundant",
      "noise", "outdated", "trivial", "empty", "duplicate", "debug", "regular">>

\* the lowest-index rule that fires
firstFiring(fires) == CHOOSE i \in 1..Len(fires) : fires[i] /\ \A j \in 1..(i - 1) : ~fires[j]

\* the rule that decided a result, told by its reason
decidingRule(analysis) ==
    CHOOSE i \in 1..12 :
        analysis.reasons[1] =
            <<"API documentation block",
              "Contains critical directives or important metadata",
              "Appears to be meaningful documentation",
              "Appears to be commented-out code",
              "Comment is redundant with the code it describes",
              "Comment appears to be noise or placeholder",
              "Comment appears to be outdated or incorrect",
              "Comment states the obvious",
              "Comment is empty or contains only whitespace",
              "Comment is duplicated elsewhere",
              "Comment appears to be debug or temporary",
              "Regular comment - preserving for safety">>[i]

\* C1: the category returned by analyzeComment is that of the lowest-index
\* rule (doc-block, critical, documentation heuristic, commented_code,
\* redundant, noise, outdated, trivial, empty, duplicate, debug, regular)
\* whose firing condition holds: a later rule never overrides an earlier one
\* that fires.
C1_PriorityOrder ==
    \A k \in 1..Len(analyses) :
        LET first == firstFiring(ruleFires(analyses[k].comment, doc, languageId))
        IN  /\ analyses[k].analysis.category = ruleCategory[first]
            /\ decidingRule(analyses[k].analysis) = first

\* a comment on which the critical rule and at least two later rules fire
C1_Witness ==
    \E k \in 1..Len(analyses) :
        LET fires == ruleFires(analyses[k].comment, doc, languageId)
        IN  /\ ~fires[1] /\ fires[2] /\ fires[4] /\ fires[10]
            /\ analyses[k].analysis.category = "critical"

Categories ==
    {"documentation", "critical", "commented_code", "redundant", "noise", "outdated",
     "trivial", "empty", "duplicate", "debug", "regular"}

\* C7: every result of analyzeComment is well formed: its category is one of
\* the eleven categories (never the initial 'unknown'), it carries at least
\* one reason, its confidence lies in [0, 1], and shouldRemove is false
\* exactly when the category is documentation, critical or regular.
C7_WellFormed ==
    \A k \in 1..Len(analyses) :
        LET a == analyses[k].analysis
        IN  /\ a.category \in Categories
            /\ Len(a.reasons) >= 1
            /\ a.confidence.d > 0
            /\ 0 <= a.confidence.n /\ a.confidence.n <= a.confidence.d
            /\ (~a.shouldRemove) <=> (a.category \in {"documentation", "critical", "regular"})

\* results of every category have been returned; here a redundant one, whose
\* confidence is the computed score
C7_Witness ==
    \E k \in 1..Len(analyses) :
        /\ analyses[k].analysis.category = "redundant"
        /\ analyses[k].analysis.shouldRemove
        /\ analyses[k].analysis.confidence = Frac(95, 100)


-----------------------------------------------------------------------------
(* Properties of the removal engine                                        *)

RECURSIVE applyInTurn(_, _, _)
\* the lines after applying the ranges one after another, each to the text
\* the one before it left
applyInTurn(lines, ranges, k) ==
    IF k > Len(ranges) THEN lines
    ELSE applyInTurn(applyEdits(lines, <<ranges[k]>>), ranges, k + 1)

\* C2: for every selection of comments, nested and overlapping spans
\* included, applying the planned deletions one after another in descending
\* order of start position gives the text that deleting the union of the
\* planned ranges from the original text gives, and that text is what an
\* applied edit leaves in the buffer.
C2_OffsetSafety ==
    /\ pc = "edit" => applyInTurn(snapshot, plan, 1) = applyEdits(snapshot, plan)
    /\ (route = "direct" /\ pc = "idle" /\ plan # <<>> /\ "failed" \notin SeqToSet(message))
           => doc = applyEdits(snapshot, plan)

\* the offsets of the non-whitespace characters of the text of lines
inkOffsets(lines) ==
    {o \in 0..(Len(GetText(lines)) - 1) : ~IsSpace(CharAt(GetText(lines), o + 1))}

\* nothing but whitespace before the comment on its first line
blankBefore(lines, range) ==
    \A i \in 1..range.start.character : IsSpace(CharAt(LineAt(lines, range.start.line), i))

\* nothing but whitespace after the comment on its last line
blankAfter(lines, range) ==
    LET line == LineAt(lines, range.end.line)
    IN  \A i \in (range.end.character + 1)..Len(line) : IsSpace(CharAt(line, i))

\* C3: removal deletes no non-whitespace character outside the spans of the
\* selected comments: the whole line is deleted only when the comment is the
\* only non-whitespace content of its line, otherwise exactly its span is.
C3_OnlyCommentText ==
    pc = "edit" =>
        /\ \A k \in 1..Len(plan) :
               (Covered(snapshot, plan[k]) \cap inkOffsets(snapshot))
                   \subseteq UNION {Covered(snapshot, pending[j].comment.range) :
                                        j \in 1..Len(pending)}
        /\ \A k \in 1..Len(plan) :
               IF blankBefore(snapshot, pending[k].comment.range)
                      /\ blankAfter(snapshot, pending[k].comment.range)
               THEN TRUE
               ELSE plan[k] = pending[k].comment.range

\* the offsets of line ln and of its terminator
lineOffsets(lines, ln) ==
    {o \in 0..(Len(GetText(lines)) - 1) : PositionAt(lines, o).line = ln}

\* C6: for a selected single-line comment with nothing but whitespace before
\* it on its line the plan deletes the whole line with its terminator; for
\* one with other text before it the plan deletes the span of the comment
\* alone and leaves the text before it as it was.
C6_WholeLineOrSpan ==
    pc = "edit" =>
        \A k \in 1..Len(plan) :
            LET comment == pending[k].comment
                ln == comment.range.start.line
                alone == applyEdits(snapshot, <<plan[k]>>)
            IN  comment.type = "single" =>
                    IF blankBefore(snapshot, comment.range)
                    THEN /\ Covered(snapshot, plan[k]) = lineOffsets(snapshot, ln)
                         /\ alone = IF ln + 1 < Len(snapshot)
                                    THEN SubSeq(snapshot, 1, ln)
                                             \o SubSeq(snapshot, ln + 2, Len(snapshot))
                                    ELSE SubSeq(snapshot, 1, ln) \o <<"">>
                    ELSE /\ Covered(snapshot, plan[k]) = Covered(snapshot, comment.range)
                         /\ alone = [snapshot EXCEPT ![ln + 1] =
                                        Substring(@, 0, comment.range.start.character)]

\* a plan for an indented whole-line comment that is not on the last line and
\* for an inline comment after code
C6_Witness ==
    /\ pc = "edit"
    /\ \E k \in 1..Len(plan) :
           /\ pending[k].comment.type = "single"
           /\ pending[k].comment.range.start.character > 0
           /\ blankBefore(snapshot, pending[k].comment.range)
           /\ pending[k].comment.range.start.line + 1 < Len(snapshot)
    /\ \E k \in 1..Len(plan) :
           /\ pending[k].comment.type = "single"
           /\ ~blankBefore(snapshot, pending[k].comment.range)


-----------------------------------------------------------------------------
(* Properties of the commands                                              *)

\* the threshold the caller gave, 0.6 when the caller gave none
suppliedThreshold(options) == IF options.given THEN options.value ELSE Frac(6, 10)

\* item has shouldRemove and a confidence of at least t
eligible(item, t) == item.analysis.shouldRemove /\ FracLeq(t, item.analysis.confidence)

preservedCategories == {"critical", "documentation", "regular"}

\* C4 as stated: every comment handed to the editor for deletion by any
\* command has shouldRemove and a confidence of at least the threshold in
\* force, so none is critical, documentation or regular.
C4_AsStated ==
    pc = "edit" =>
        \A k \in 1..Len(pending) :
            /\ eligible(pending[k], thresholdInForce(threshold))
            /\ pending[k].analysis.category \notin preservedCategories

\* C4: every comment deleted after 'Yes, Remove Comments' has shouldRemove
\* and a confidence of at least the threshold in force and of at least the
\* threshold the caller gave, so none is critical, documentation or regular;
\* 'Yes, NUKE ALL Comments' hands every extracted comment to the editor,
\* whatever its classification.
C4_RemovedAreEligible ==
    /\ (route = "preview" /\ (pc = "edit" \/ "removed" \in SeqToSet(message))) =>
           \A k \in 1..Len(pending) :
               /\ eligible(pending[k], thresholdInForce(threshold))
               /\ eligible(pending[k], suppliedThreshold(threshold))
               /\ pending[k].analysis.category \notin preservedCategories
    /\ (route = "nuke" /\ pc = "edit") =>
           /\ Len(pending) = Len(analyses)
           /\ SeqToSet(pending) = SeqToSet(analyses)
           /\ Len(plan) = Len(analyses)

\* comments were deleted after 'Yes, Remove Comments' from a document that
\* also holds a comment the classifier preserves
C4_Witness ==
    /\ route = "preview"
    /\ "removed" \in SeqToSet(message)
    /\ Len(pending) >= 1
    /\ \E k \in 1..Len(analyses) : analyses[k].analysis.category \in preservedCategories

\* C5: for every threshold t in [0, 1] the caller gives, 0 included, the
\* removable comments are exactly those with shouldRemove and confidence >= t;
\* 0.6 is the threshold only when the caller gives none.
C5_ThresholdHonoured ==
    LET expected == SelectSeq(analyses, LAMBDA item : eligible(item, suppliedThreshold(threshold)))
    IN  /\ pc = "results" => pending = expected
        /\ message = <<"noUnnecessary">> => expected = <<>>

\* the document of the outdated-comment scenario, after its analysis
oldVersionAnalysed ==
    /\ languageId = "python"
    /\ doc = <<"# old version", "x = get_value()", "">>
    /\ analyses # <<>>

\* C8 as stated: in a python document with the line '# old version' before
\* the line 'x = get_value()' the one comment extracted is classified
\* outdated with confidence 0.7 and shouldRemove.
C8_AsStated ==
    oldVersionAnalysed =>
        /\ Len(analyses) = 1
        /\ analyses[1].comment.type = "single"
        /\ analyses[1].comment.text = "# old version"
        /\ analyses[1].analysis.category = "outdated"
        /\ analyses[1].analysis.confidence = Frac(7, 10)
        /\ analyses[1].analysis.shouldRemove

\* C8: in a python document with the line '# old version' before the line
\* 'x = get_value()' the one comment extracted is the single-line comment
\* '# old version'; it matches the outdated indicator 'old version', but the
\* noise rule, which comes first and fires on a comment of at most three
\* words, classifies it noise with confidence 0.8 and shouldRemove.
C8_OldVersionIsNoise ==
    oldVersionAnalysed =>
        /\ Len(analyses) = 1
        /\ analyses[1].comment.type = "single"
        /\ analyses[1].comment.text = "# old version"
        /\ isOutdatedComment(cleanCommentText(analyses[1].comment.text))
        /\ analyses[1].analysis.category = "noise"
        /\ analyses[1].analysis.confidence = Frac(8, 10)
        /\ analyses[1].analysis.shouldRemove

C8_Witness == oldVersionAnalysed /\ pc = "results" /\ Len(pending) = 1

\* the document of the doc-block scenario, after its analysis
paramBlockAnalysed ==
    /\ languageId = "javascript"
    /\ doc = <<"/** @param x the input */", "function f(x) {}">>
    /\ analyses # <<>>

\* C9: in a javascript document with the line '/** @param x the input */'
\* before the line 'function f(x) {}' the one comment extracted is a
\* doc-block and is classified documentation by the doc-block rule, with
\* confidence 0.9 and shouldRemove false.
C9_DocBlockScenario ==
    paramBlockAnalysed =>
        /\ Len(analyses) = 1
        /\ analyses[1].comment.text = "/** @param x the input */"
        /\ analyses[1].comment.type = "docblock"
        /\ analyses[1].analysis.category = "documentation"
        /\ analyses[1].analysis.confidence = Frac(9, 10)
        /\ ~analyses[1].analysis.shouldRemove
        /\ analyses[1].analysis.reasons = <<"API documentation block">>

\* the document of the commented-out-code scenario, after its analysis
commentedCodeAnalysed ==
    /\ languageId = "javascript"
    /\ doc = <<"// x = x + 1", "x = x + 1;", "">>
    /\ analyses # <<>>

\* C10: in a javascript document with the line '// x = x + 1' before the
\* line 'x = x + 1;' the one comment extracted has the normalised text
\* 'x = x + 1' and is classified commented_code with confidence 0.9 and
\* shouldRemove, by the assignment pattern and not by the redundancy score.
C10_CommentedCodeScenario ==
    commentedCodeAnalysed =>
        /\ Len(analyses) = 1
        /\ analyses[1].comment.type = "single"
        /\ analyses[1].comment.text = "// x = x + 1"
        /\ cleanCommentText(analyses[1].comment.text) = "x = x + 1"
        /\ hasVariableAssignment("x = x + 1")
        /\ analyses[1].analysis.category = "commented_code"
        /\ analyses[1].analysis.confidence = Frac(9, 10)
        /\ analyses[1].analysis.shouldRemove
        /\ analyses[1].analysis.reasons = <<"Appears to be commented-out code">>

C10_Witness ==
    /\ commentedCodeAnalysed
    /\ pc = "results"
    /\ pending = analyses
    /\ threshold = [given |-> TRUE, value |-> Frac(8, 10)]


\* a command starts its analysis of a document of a supported language
analysisStep == pc = "idle" /\ runs' = runs + 1 /\ getLanguageConfig(languageId) # NoConfig

-----------------------------------------------------------------------------
(* Properties of the redundancy score                                      *)

\* the words of the normalised text of a comment that are scored
commentTokens(comment) == LongWords(cleanCommentText(comment.text))

\* the words of the next non-empty line that they are compared with
codeTokens(comment) ==
    LET Blank(c) == IF IsAlnum(c) THEN c ELSE " "
    IN  LongWords(MapChars(Blank, ToLowerCase(comment.context.nextNonEmptyLine), 1))

scoreOf(comment) ==
    calculateRedundancyScore(cleanCommentText(comment.text), comment.context)

\* C12: for every comment and context the redundancy score is a defined
\* number s with 0 <= s <= 0.95: it is 0, and nothing is divided, when the
\* comment or the next line has no word longer than two characters or there
\* is no next line, and no word of the comment weighs more than 1.0.
C12_RedundancyBounds ==
    \A k \in 1..Len(analyses) :
        LET comment == analyses[k].comment
            s == scoreOf(comment)
            commentWords == commentTokens(comment)
            codeWords == codeTokens(comment)
        IN  /\ s.d > 0
            /\ 0 <= s.n
            /\ FracLeq(s, Frac(95, 100))
            /\ (commentWords = <<>> \/ codeWords = <<>>) => s = Frac(0, 1)
            /\ \A w \in 1..Len(commentWords) :
                   /\ 0 <= wordWeight(commentWords[w], codeWords)
                   /\ wordWeight(commentWords[w], codeWords) <= 10

\* a comment with scored words before a line that has none
C12_Witness ==
    \E k \in 1..Len(analyses) :
        /\ commentTokens(analyses[k].comment) # <<>>
        /\ analyses[k].comment.context.nextNonEmptyLine # ""
        /\ codeTokens(analyses[k].comment) = <<>>
        /\ scoreOf(analyses[k].comment) = Frac(0, 1)

\* the words of commentWords found as they are among codeWords
exactTokens(commentWords, codeWords) ==
    {w \in 1..Len(commentWords) : commentWords[w] \in SeqToSet(codeWords)}

\* the remaining ones that contain a word of codeWords or are contained in one
partialTokens(commentWords, codeWords) ==
    {w \in (1..Len(commentWords)) \ exactTokens(commentWords, codeWords) :
        \E c \in SeqToSet(codeWords) :
            Includes(c, commentWords[w]) \/ Includes(commentWords[w], c)}

\* the remaining ones that are a key of the synonym table with one of its
\* synonyms among codeWords
semanticTokens(commentWords, codeWords) ==
    {w \in (1..Len(commentWords))
               \ (exactTokens(commentWords, codeWords)
                      \cup partialTokens(commentWords, codeWords)) :
        \E p \in 1..Len(semanticPairs) :
            /\ semanticPairs[p].key = commentWords[w]
            /\ SeqToSet(semanticPairs[p].synonyms) \cap SeqToSet(codeWords) # {}}

\* (1.0 x exact + 0.7 x partial + 0.5 x semantic) / tokens, capped at 0.95
weightedScore(commentWords, codeWords) ==
    FracMin(Frac(10 * Cardinality(exactTokens(commentWords, codeWords))
                     + 7 * Cardinality(partialTokens(commentWords, codeWords))
                     + 5 * Cardinality(semanticTokens(commentWords, codeWords)),
                 10 * Len(commentWords)),
            Frac(95, 100))

\* one of the rules that come before the redundant rule fires
earlierRuleFires(comment, id) ==
    LET clean == cleanCommentText(comment.text)
    IN  \/ isDocBlockComment(comment)
        \/ isCriticalComment(clean)
        \/ isDocumentation(clean, comment.context)
        \/ isCommentedCode(clean, getLanguageConfig(id))

\* C20: for a comment with at least one scored word the redundancy score is
\* (1.0 x the words found exactly among the words of the next line + 0.7 x
\* the remaining words in a substring relation with one of them + 0.5 x the
\* remaining words that are a synonym-table key with a listed synonym among
\* them) divided by the number of scored words, capped at 0.95; the category
\* is redundant exactly when no earlier rule fires and this score is above
\* 0.5, and the confidence is then the score.
C20_WeightedScore ==
    \A k \in 1..Len(analyses) :
        LET comment == analyses[k].comment
            commentWords == commentTokens(comment)
            codeWords == codeTokens(comment)
            score == weightedScore(commentWords, codeWords)
        IN  commentWords # <<>> =>
                /\ scoreOf(comment) = score
                /\ analyses[k].analysis.category = "redundant"
                       <=> (~earlierRuleFires(comment, languageId) /\ FracLess(Frac(1, 2), score))
                /\ analyses[k].analysis.category = "redundant"
                       => analyses[k].analysis.confidence = score

\* a comment of two words, one a part of a word of the next line and one a
\* key whose synonym is in the next line: (0.7 + 0.5) / 2
C20_Witness ==
    \E k \in 1..Len(analyses) :
        /\ Cardinality(partialTokens(commentTokens(analyses[k].comment),
                                      codeTokens(analyses[k].comment))) = 1
        /\ Cardinality(semanticTokens(commentTokens(analyses[k].comment),
                                       codeTokens(analyses[k].comment))) = 1
        /\ analyses[k].analysis.category = "redundant"
        /\ analyses[k].analysis.confidence = Frac(6, 10)


-----------------------------------------------------------------------------
(* Properties of the commands: languages and failures                      *)

\* the language ids with a profile, aliases included
SupportedLanguages ==
    {"javascript", "javascriptreact", "typescript", "typescriptreact", "python",
     "java", "c", "cpp", "csharp", "html", "xml", "css"}

\* C13: for a document whose language id has no profile and is no alias of
\* one, extractComments returns the empty sequence, and the clean and
\* remove-all commands end with the one notification that the language is
\* not supported: no dialog opens, no edit is planned or applied, the text
\* stays as it was and no error is reported.
C13_UnsupportedLanguage ==
    /\ \A id \in SupportedLanguages : getLanguageConfig(id) # NoConfig
    /\ languageId \notin SupportedLanguages =>
           /\ getLanguageConfig(languageId) = NoConfig
           /\ extractComments(doc, languageId) = <<>>
           /\ pc = "idle"
           /\ analyses = <<>> /\ pending = <<>> /\ plan = <<>> /\ decorations = <<>>
           /\ \E d \in Corpus : d.languageId = languageId /\ d.lines = doc
           /\ statistics = NoStatistics
           /\ message = IF runs = 0 THEN <<>> ELSE <<"unsupported">>

\* commands have run on a document of an unsupported language that holds
\* text a C-like profile would take for a comment
C13_Witness ==
    /\ languageId = "plaintext"
    /\ runs = 2
    /\ message = <<"unsupported">>
    /\ ScanSingle(GetText(doc), "//", 1) # <<>>

\* the text of lines that range covers
textAt(lines, range) ==
    Substring(GetText(lines), OffsetAt(lines, range.start), OffsetAt(lines, range.end))

\* C14: the positions of the extracted comments are used for deletions only
\* on the text they were extracted from: when the deletions are planned, the
\* text of the document at the range of every comment to remove is the text
\* of that comment, also when the document was edited while a dialog was
\* open.
C14_NoStalePositions ==
    pc = "edit" =>
        \A k \in 1..Len(pending) :
            textAt(snapshot, pending[k].comment.range) = pending[k].comment.text

\* how many entries of the notifications are the given one
shown(notifications, kind) == Len(SelectSeq(notifications, LAMBDA m : m = kind))

\* C15: when the host reports that the deletions were not applied,
\* removeComments reports the failure once and ends: it reports no success,
\* the edit is not attempted again, the text is as it was, and the
\* statistics of the analyzer, removedComments and the counts per category
\* included, are what they were before the edit.
C15_EditFailure ==
    [][(pc = "edit" /\ shown(message', "failed") > shown(message, "failed")) =>
          /\ shown(message', "failed") = shown(message, "failed") + 1
          /\ shown(message', "removed") = shown(message, "removed")
          /\ pc' = "idle"
          /\ doc' = doc
          /\ statistics' = statistics
          /\ statistics'.removedComments = statistics.removedComments
          /\ statistics'.categories = statistics.categories]_vars

\* an edit failed after an earlier command removed comments: the statistics
\* are those of the earlier removal
C15_Witness ==
    /\ runs = 2
    /\ pc = "idle"
    /\ "failed" \in SeqToSet(message)
    /\ plan # <<>>
    /\ statistics.removedComments > 0
    /\ statistics.categories # <<>>


-----------------------------------------------------------------------------
(* Properties of the removal engine: spans and order                       *)

\* C16: the deletion planned for a selected comment covers the whole span of
\* the comment, from its start to its end, also for a multi-line comment
\* that spans several lines and has only whitespace before it on its first
\* line.
C16_WholeSpanCovered ==
    pc = "edit" =>
        \A k \in 1..Len(plan) :
            Covered(snapshot, pending[k].comment.range) \subseteq Covered(snapshot, plan[k])

\* the entries of all that are in chosen, in the order of all
inputOrder(all, chosen) == SelectSeq(all, LAMBDA item : item \in SeqToSet(chosen))

\* C17: the deletions are issued in descending order of the start position
\* of their comments, line first and then column: the comment of a deletion
\* starts at or after the comment of the deletion issued next, each deletion
\* is the one chosen for its comment, and the comments are those of the list
\* handed in, whatever its order.
C17_DescendingOrder ==
    pc = "edit" =>
        /\ Len(plan) = Len(pending)
        /\ \A k \in 1..Len(plan) : plan[k] = deletionRange(snapshot, pending[k])
        /\ \A k \in 1..(Len(pending) - 1) :
               LET a == pending[k].comment.range.start
                   b == pending[k + 1].comment.range.start
               IN  a.line > b.line \/ (a.line = b.line /\ a.character >= b.character)
        /\ SeqToSet(pending) \subseteq SeqToSet(analyses)
        /\ Len(inputOrder(analyses, pending)) = Len(pending)

\* three or more comments to remove were handed in neither in descending nor
\* in ascending order of their start positions
C17_Witness ==
    /\ pc = "edit"
    /\ Len(pending) >= 3
    /\ inputOrder(analyses, pending) # pending
    /\ inputOrder(analyses, pending) # [k \in 1..Len(pending) |-> pending[Len(pending) + 1 - k]]


-----------------------------------------------------------------------------
(* Properties of the extraction                                            *)

\* the comments of the last analysis, of a document not edited since
extracted == [k \in 1..Len(analyses) |-> analyses[k].comment]

\* C18: an extracted comment has isInline exactly when a character that is
\* not whitespace precedes it on the line it starts on: false for a comment
\* after indentation only, true for a multi-line comment after code.
C18_InlineFlag ==
    runs = 1 =>
        \A k \in 1..Len(extracted) :
            extracted[k].isInlineComment <=> ~blankBefore(doc, extracted[k].range)

\* the 0-based offsets at which the comment starts and ends in the text
startOffset(lines, comment) == OffsetAt(lines, comment.range.start)

endOffset(lines, comment) == OffsetAt(lines, comment.range.end)

\* C19: extraction scans the text once for the single-line pattern and once
\* for the multi-line pattern, each over the whole text: every line with
\* the marker '//' gives one single-line comment, from the first marker of
\* the line to its end, also where that lies inside a multi-line comment;
\* every '/*' outside the multi-line comments found so far that is followed
\* by a '*/' opens a multi-line comment that ends with the first such '*/';
\* the single-line comments come before the multi-line ones, and the
\* comments of each kind are in ascending order of their start.
C19_IndependentScans ==
    runs = 1 =>
        LET text == GetText(doc)
            singles == SelectSeq(extracted, LAMBDA c : c.type = "single")
            multis == SelectSeq(extracted, LAMBDA c : c.type = "multi")
        IN  /\ extracted = singles \o multis
            /\ \A k \in 1..(Len(singles) - 1) :
                   startOffset(doc, singles[k]) < startOffset(doc, singles[k + 1])
            /\ \A k \in 1..(Len(multis) - 1) :
                   endOffset(doc, multis[k]) <= startOffset(doc, multis[k + 1])
            /\ {c.range : c \in SeqToSet(singles)}
                   = {[start |-> [line |-> ln, character |-> IndexFrom(doc[ln + 1], "//", 1) - 1],
                       end |-> [line |-> ln, character |-> Len(doc[ln + 1])]] :
                          ln \in {n \in 0..(Len(doc) - 1) : Includes(doc[n + 1], "//")}}
            /\ \A k \in 1..Len(extracted) :
                   extracted[k].text = textAt(doc, extracted[k].range)
            /\ \A k \in 1..Len(multis) :
                   /\ StartsWith(multis[k].text, "/*")
                   /\ IndexFrom(multis[k].text, "*/", 3) = Len(multis[k].text) - 1
            /\ \A i \in 1..Len(text) :
                   (StartsAt(text, "/*", i) /\ IndexFrom(text, "*/", i + 2) > 0) =>
                       \E k \in 1..Len(multis) :
                           /\ startOffset(doc, multis[k]) < i
                           /\ i <= endOffset(doc, multis[k])

\* a single-line comment that lies inside a multi-line comment, and a
\* multi-line comment that starts before a single-line comment listed
\* before it
C19_Witness ==
    /\ runs = 1
    /\ \E s, m \in 1..Len(extracted) :
           /\ extracted[s].type = "single"
           /\ extracted[m].type = "multi"
           /\ s < m
           /\ startOffset(doc, extracted[m]) < startOffset(doc, extracted[s])
           /\ endOffset(doc, extracted[s]) <= endOffset(doc, extracted[m])


-----------------------------------------------------------------------------
(* Properties of the rules                                                 *)

RECURSIVE WordRuns(_, _, _)
\* the maximal runs of \w characters of s from index i on, cur being the run
\* read so far
WordRuns(s, i, cur) ==
    IF i > Len(s) THEN (IF cur = "" THEN {} ELSE {cur})
    ELSE IF IsWordChar(CharAt(s, i))
         THEN WordRuns(s, i + 1, cur \o CharAt(s, i))
         ELSE (IF cur = "" THEN {} ELSE {cur}) \cup WordRuns(s, i + 1, "")

\* the whole words of s
wholeWords(s) == WordRuns(s, 1, "")

\* C21: the commented_code rule counts a keyword of the language only when
\* it is a whole word of the normalised comment: a keyword that is only the
\* beginning or the end of a longer word ('for' in 'format', 'if' in
\* 'notif') is not counted towards the two keywords that make a comment
\* commented-out code.
C21_WholeWordKeywords ==
    \A k \in 1..Len(analyses) :
        LET clean == cleanCommentText(analyses[k].comment.text)
            keywords == getLanguageConfig(languageId).keywords
        IN  \A w \in 1..Len(keywords) :
                hasKeyword(clean, keywords[w]) => keywords[w] \in wholeWords(clean)

\* the trimmed text of the first line after line ln that is not blank, ""
\* if there is none
firstNonBlankAfter(lines, ln) ==
    LET filled == {n \in (ln + 1)..(Len(lines) - 1) : Trim(LineAt(lines, n)) # ""}
    IN  IF filled = {} THEN ""
        ELSE Trim(LineAt(lines, CHOOSE n \in filled : \A m \in filled : n <= m))

\* C22: the next non-blank line in the context of a comment is the first
\* line after the comment's line number whose trimmed text is not empty, ""
\* if there is none, and it is no line of the comment itself: for a
\* multi-line comment it is the first non-blank line after the last line of
\* the comment.
C22_NextLineAfterComment ==
    runs = 1 =>
        \A k \in 1..Len(extracted) :
            /\ extracted[k].context.nextNonEmptyLine
                   = firstNonBlankAfter(doc, extracted[k].lineNumber)
            /\ extracted[k].context.nextNonEmptyLine
                   = firstNonBlankAfter(doc, extracted[k].range.end.line)


-----------------------------------------------------------------------------
(* Properties of the dialogs                                               *)

\* C23: in the clean and remove-all commands the edit of the document is
\* started only by the answer 'Yes, Remove Comments' or 'Yes, NUKE ALL
\* Comments' to the last modal dialog, and the text changes only by that
\* edit: every other answer to a dialog, its dismissal, an empty selection
\* in the selection list, 'Show Report' and 'Cancel' start no edit and leave
\* the text and the last plan as they were.
C23_EditOnlyAfterConfirm ==
    [][/\ (pc' = "edit" /\ pc # "edit") =>
              \/ PreviewChoice("Yes, Remove Comments")
              \/ NukeChoice("Yes, NUKE ALL Comments")
       /\ doc' # doc => pc = "edit"
       /\ (\/ \E choice \in PreviewAnswers \ {"Yes, Remove Comments"} : PreviewChoice(choice)
           \/ \E choice \in NukeAnswers \ {"Yes, NUKE ALL Comments"} : NukeChoice(choice)
           \/ SelectChoice({}))
              => (pc' = "idle" /\ doc' = doc /\ plan' = plan /\ snapshot' = snapshot
                     /\ message' = message)
       /\ (\E action \in ResultsActions : ResultsChoice(action))
              => (pc' # "edit" /\ doc' = doc /\ plan' = plan /\ snapshot' = snapshot)
       /\ (\E picked \in Selections(pending) : SelectChoice(picked))
              => (pc' # "edit" /\ doc' = doc /\ plan' = plan /\ snapshot' = snapshot)]_vars

\* two commands found comments to remove and both ended without an edit: no
\* deletion was ever planned and the text is the one the session started with
C23_Witness ==
    /\ runs = 2
    /\ pc = "idle"
    /\ pending # <<>>
    /\ message = <<>>
    /\ plan = <<>>
    /\ snapshot = <<>>
    /\ \E d \in Corpus : d.languageId = languageId /\ d.lines = doc

\* C24: every extracted comment (single-line or multi-line) whose normalised
\* text has at most two characters, the empty text of a bare '//' or '#'
\* included, is classified noise with confidence 0.8 and shouldRemove: none
\* of the rules before the noise rule fires on such a text, and the empty
\* rule, which holds for some of them, never decides one.
C24_ShortIsNoise ==
    \A k \in 1..Len(analyses) :
        LET comment == analyses[k].comment
            clean == cleanCommentText(comment.text)
            a == analyses[k].analysis
        IN  (comment.type \in {"single", "multi"} /\ Len(clean) <= 2) =>
                /\ ~earlierRuleFires(comment, languageId)
                /\ ~FracLess(Frac(1, 2), scoreOf(comment))
                /\ a.category = "noise"
                /\ a.confidence = Frac(8, 10)
                /\ a.shouldRemove
                /\ a.reasons = <<"Comment appears to be noise or placeholder">>

\* a bare marker: the normalised text is empty, the empty rule holds for it,
\* and it is classified noise
C24_Witness ==
    \E k \in 1..Len(analyses) :
        /\ analyses[k].comment.type = "single"
        /\ cleanCommentText(analyses[k].comment.text) = ""
        /\ isEmptyComment("")
        /\ analyses[k].analysis.category = "noise"

\* the removal of exactly the comments flagged for removal has been applied
flaggedRemoved ==
    /\ pc = "idle"
    /\ route = "preview"
    /\ message # <<>>
    /\ message[Len(message)] = "removed"
    /\ pending = sortDescending(removableComments(analyses, threshold))

\* C25: when the comments flagged for removal have been removed, the text of
\* every comment that was classified duplicate still occurs in the document:
\* of several comments with the same text one is kept.
C25_OneCopyKept ==
    flaggedRemoved =>
        \A k \in 1..Len(analyses) :
            analyses[k].analysis.category = "duplicate" =>
                Includes(GetText(doc), Trim(analyses[k].comment.text))

\* C26: once the dialog of showDetailedResults, showRemovalPreview or
\* removeAllCommentsWithConfirmation has been answered, the decorations are
\* cleared: there is none while removeComments runs (before any removal),
\* none while the quick pick is open, and none when the command has
\* returned; while a later dialog is open the editor carries only the
\* decorations that dialog has set itself.
C26_DecorationsCleared ==
    /\ pc \in {"idle", "select", "edit"} => decorations = <<>>
    /\ pc = "preview" => decorations = RangesOf(pending)
    /\ pc = "nuke" => decorations = RangesOf(analyses)

\* the nuclear dialog, which had set decorations, has been confirmed and the
\* removal is about to be performed
C26_Witness ==
    /\ pc = "edit"
    /\ route = "nuke"
    /\ RangesOf(analyses) # <<>>
    /\ decorations = <<>>


=============================================================================
